---- MODULE Spec2Model ----
(***************************************************************************)
(* Model of the M&A classifier demo page (src/pages/1_Demo.py): the        *)
(* classification client (classify_text, classify_pdf), the result         *)
(* renderer (render_result) and the three button handlers of main().       *)
(*                                                                         *)
(* One Streamlit rerun of the script is one step.  The widget values and   *)
(* the uploaded file object persist between reruns; everything the script  *)
(* displays is rebuilt by each rerun.  The remote service and the network  *)
(* are the environment: each request draws one outcome from Outcomes.      *)
(***************************************************************************)
EXTENDS Integers, Sequences, FiniteSets, TLC

(***************************************************************************)
(* Python / JSON values.  Every value is a tagged record so that values of *)
(* different Python types can be compared.  json.loads maps JSON null to   *)
(* Python None, the same value the client returns for "no result".         *)
(* Numbers are kept in thousandths (870 is 0.87).                          *)
(***************************************************************************)
None == [t |-> "None"]

PyBool(b) == [t |-> "bool", b |-> b]

PyNum(n) == [t |-> "num", n |-> n]

PyStr(s) == [t |-> "str", s |-> s]

PyList(items) == [t |-> "list", items |-> items]

PyDict(fields) == [t |-> "dict", fields |-> fields]

EmptyDict == PyDict([k \in {} |-> None])

\* Value left in `result` by a rerun that called neither classify function.
NoCall == [t |-> "nocall"]

\* bool(v) of Python, as used by `if result:` and the `if x:` tests of render_result.
Truthy(v) ==
    CASE v.t = "None" -> FALSE
      [] v.t = "bool" -> v.b
      [] v.t = "num"  -> v.n # 0
      [] v.t = "str"  -> v.s # ""
      [] v.t = "list" -> v.items # <<>>
      [] v.t = "dict" -> DOMAIN v.fields # {}
      [] OTHER        -> FALSE

\* dict.get(key, default)
Get(d, key, default) == IF key \in DOMAIN d.fields THEN d.fields[key] ELSE default

(***************************************************************************)
(* Exceptions: a type and the text str(e) yields.  Bases gives, for each   *)
(* type raised here, the classes an `except` clause matches it against.    *)
(***************************************************************************)
NoExc == [type |-> "none", msg |-> ""]

Exc(type, msg) == [type |-> type, msg |-> msg]

Bases(type) ==
    CASE type = "ReadTimeout"     -> {"ReadTimeout", "Timeout", "RequestException", "Exception"}
      [] type = "ConnectTimeout"  -> {"ConnectTimeout", "ConnectionError", "Timeout",
                                      "RequestException", "Exception"}
      [] type = "ConnectionError" -> {"ConnectionError", "RequestException", "Exception"}
      [] type = "JSONDecodeError" -> {"JSONDecodeError", "RequestException", "ValueError",
                                      "Exception"}
      [] type = "ValueError"      -> {"ValueError", "Exception"}
      [] type = "TypeError"       -> {"TypeError", "Exception"}
      [] type = "AttributeError"  -> {"AttributeError", "Exception"}
      [] OTHER                    -> {}

IsInstance(exc, class) == class \in Bases(exc.type)

(***************************************************************************)
(* What the script puts on the page: st.error, st.success, st.metric ...   *)
(***************************************************************************)
Element(w, label, body) == [w |-> w, label |-> label, body |-> body]

StError(msg) == Element("error", "", msg)

(***************************************************************************)
(* base64.b64encode(pdf_bytes).decode('utf-8').  Bytes are 0..255; the     *)
(* encoder yields ASCII codes, the decoder turns them into a str.          *)
(***************************************************************************)
\* ASCII code of the base64 digit with value i (A-Z, a-z, 0-9, +, /); 61 is the pad "=".
B64Code(i) ==
    CASE i \in 0..25  -> 65 + i
      [] i \in 26..51 -> 97 + (i - 26)
      [] i \in 52..61 -> 48 + (i - 52)
      [] i = 62       -> 43
      [] OTHER        -> 47

RECURSIVE b64encode(_)
b64encode(bytes) ==
    IF bytes = <<>> THEN <<>>
    ELSE IF Len(bytes) = 1 THEN
        LET n == bytes[1] * 65536
        IN  <<B64Code(n \div 262144), B64Code((n \div 4096) % 64), 61, 61>>
    ELSE IF Len(bytes) = 2 THEN
        LET n == bytes[1] * 65536 + bytes[2] * 256
        IN  <<B64Code(n \div 262144), B64Code((n \div 4096) % 64),
              B64Code((n \div 64) % 64), 61>>
    ELSE
        LET n == bytes[1] * 65536 + bytes[2] * 256 + bytes[3]
        IN  <<B64Code(n \div 262144), B64Code((n \div 4096) % 64),
              B64Code((n \div 64) % 64), B64Code(n % 64)>>
            \o b64encode(SubSeq(bytes, 4, Len(bytes)))

Upper == <<"A","B","C","D","E","F","G","H","I","J","K","L","M",
           "N","O","P","Q","R","S","T","U","V","W","X","Y","Z">>

Lower == <<"a","b","c","d","e","f","g","h","i","j","k","l","m",
           "n","o","p","q","r","s","t","u","v","w","x","y","z">>

Digit == <<"0","1","2","3","4","5","6","7","8","9">>

\* chr(c) for the ASCII codes the encoder produces.
Chr(c) ==
    CASE c \in 65..90  -> Upper[c - 64]
      [] c \in 97..122 -> Lower[c - 96]
      [] c \in 48..57  -> Digit[c - 47]
      [] c = 43        -> "+"
      [] c = 47        -> "/"
      [] c = 61        -> "="
      [] OTHER         -> "?"

RECURSIVE decode_utf8(_)
decode_utf8(codes) ==
    IF codes = <<>> THEN "" ELSE Chr(codes[1]) \o decode_utf8(Tail(codes))

(***************************************************************************)
(* The uploaded file: a file-like object (Streamlit's UploadedFile is an   *)
(* io.BytesIO) with its content and read position.                         *)
(***************************************************************************)
MaxPdfLen == 3

ByteValues == {37, 255}

\* Files of every length up to MaxPdfLen: one byte value repeated, or the two alternating.
PdfContents ==
    {[i \in 1..n |-> b] : n \in 0..MaxPdfLen, b \in ByteValues}
        \cup {[i \in 1..n |-> IF i % 2 = 1 THEN 37 ELSE 255] : n \in 0..MaxPdfLen}

UploadedFile(content) == [content |-> content, pos |-> 0]

\* pdf_file.read(): the bytes from the read position to the end, position moved to the end.
file_read(f) ==
    [data |-> SubSeq(f.content, f.pos + 1, Len(f.content)),
     file |-> [f EXCEPT !.pos = Len(f.content)]]

\* pdf_file.seek(n)
file_seek(f, n) == [f EXCEPT !.pos = n]

(***************************************************************************)
(* The remote service and the network.  A response is a status code and a  *)
(* body text; response.json() parses the text.  JsonDocuments lists the    *)
(* body texts that are JSON, each with the value json.loads gives for it;  *)
(* any other text does not parse.                                          *)
(***************************************************************************)
API_ENDPOINT == "https://b6svh4pxaw2nr5pr3ndcbnhche0pbtcl.lambda-url.us-east-1.on.aws/"

\* The dict with the given <<key, value>> pairs.
Obj(pairs) == PyDict([k \in {p[1] : p \in pairs} |-> (CHOOSE p \in pairs : p[1] = k)[2]])

ExampleQualified ==
    Obj({<<"qualified", PyBool(TRUE)>>, <<"confidence", PyNum(870)>>, <<"theme", PyStr("LBO")>>})

FullQualified ==
    Obj({<<"qualified", PyBool(TRUE)>>, <<"confidence", PyNum(875)>>, <<"theme", PyStr("Merger")>>,
         <<"reasoning", PyStr("Change of control")>>, <<"stage", PyStr("bedrock")>>,
         <<"bedrock_called", PyBool(TRUE)>>})

ExampleRejected ==
    Obj({<<"qualified", PyBool(FALSE)>>, <<"reason", PyStr("Deal size below threshold")>>,
         <<"filter", PyStr("min_deal_size")>>})

MinimalRejected == Obj({<<"qualified", PyBool(FALSE)>>})

NullConfidence == Obj({<<"qualified", PyBool(TRUE)>>, <<"confidence", None>>})

Unrecognized == Obj({<<"message", PyStr("ok")>>})

Forbidden == Obj({<<"message", PyStr("Forbidden")>>})

JsonDocuments ==
    { <<"{\"qualified\": true, \"confidence\": 0.87, \"theme\": \"LBO\"}", ExampleQualified>>,
      <<"{\"qualified\": true, \"confidence\": 0.875, \"theme\": \"Merger\", \"reasoning\": \"Change of control\", \"stage\": \"bedrock\", \"bedrock_called\": true}", FullQualified>>,
      <<"{\"qualified\": false, \"reason\": \"Deal size below threshold\", \"filter\": \"min_deal_size\"}", ExampleRejected>>,
      <<"{\"qualified\": false}", MinimalRejected>>,
      <<"{\"qualified\": true, \"confidence\": null}", NullConfidence>>,
      <<"{\"message\": \"ok\"}", Unrecognized>>,
      <<"{\"message\": \"Forbidden\"}", Forbidden>>,
      <<"{}", EmptyDict>>,
      <<"[1]", PyList(<<PyNum(1000)>>)>>,
      <<"null", None>>,
      <<"\"ok\"", PyStr("ok")>> }

JsonTexts == {d[1] : d \in JsonDocuments}

\* Body texts that are not JSON.
RawTexts == {"internal error", ""}

\* json.loads(text)
json_loads(text) ==
    IF text \in JsonTexts
    THEN [raised |-> NoExc, value |-> (CHOOSE d \in JsonDocuments : d[1] = text)[2]]
    ELSE [raised |-> Exc("JSONDecodeError", "Expecting value: line 1 column 1 (char 0)"),
          value  |-> None]

Response(status_code, text) == [status_code |-> status_code, text |-> text]

NoResponse == Response(0, "")

Responses ==
    {Response(200, t) : t \in JsonTexts \cup RawTexts}
        \cup {Response(500, "internal error"), Response(403, "{\"message\": \"Forbidden\"}"),
              Response(201, "{\"qualified\": false}")}

\* What the network does with one request: the connection is refused, the
\* connection is never established, or the service replies after `secs` seconds.
Outcome(k, secs, response) == [k |-> k, secs |-> secs, response |-> response]

Outcomes ==
    {Outcome("refused", 0, NoResponse), Outcome("no_connect", 0, NoResponse)}
        \cup {Outcome("reply", 2, r) : r \in Responses}
        \cup {Outcome("reply", 30, Response(200, "{\"qualified\": false}")),
              Outcome("reply", 36, Response(200, "{\"qualified\": false}")),
              Outcome("reply", 60, Response(500, "internal error"))}

Request(json) ==
    [url     |-> API_ENDPOINT,
     json    |-> json,
     headers |-> [k \in {"Content-Type"} |-> "application/json"],
     timeout |-> 35]

\* requests.post(...): the response, or the exception raised instead.
requests_post(request, outcome) ==
    CASE outcome.k = "refused" ->
            [raised |-> Exc("ConnectionError", "Connection refused"), response |-> NoResponse]
      [] outcome.k = "no_connect" ->
            [raised |-> Exc("ConnectTimeout", "Connection timed out"), response |-> NoResponse]
      [] OTHER ->
            IF outcome.secs > request.timeout
            THEN [raised |-> Exc("ReadTimeout", "Read timed out"), response |-> NoResponse]
            ELSE [raised |-> NoExc, response |-> outcome.response]

(***************************************************************************)
(* classify_text.  A call yields the value returned (ret), the st.error    *)
(* elements it displayed (shown), the requests it sent (wire) and the      *)
(* exception that left the function uncaught (raised; NoExc when none).    *)
(***************************************************************************)
\* Mutant: returns response.text where the code returns response.json().
text_on_response_text(response) ==
    IF response.status_code = 200
    THEN [raised |-> NoExc, ret |-> PyStr(response.text), shown |-> <<>>]
    ELSE [raised |-> NoExc, ret |-> None,
          shown  |-> <<StError("API Error: " \o ToString(response.status_code)),
                       StError(response.text)>>]

\* The `if response.status_code == 200: ... else: ...` of the try body.
text_on_response(response) ==
    IF response.status_code = 200
    THEN LET j == json_loads(response.text)
         IN  [raised |-> j.raised, ret |-> j.value, shown |-> <<>>]
    ELSE [raised |-> NoExc, ret |-> None,
          shown  |-> <<StError("API Error: " \o ToString(response.status_code)),
                       StError(response.text)>>]

\* Mutant: the catch-all clause comes first, so the timeout clause is never reached.
text_handlers_swapped(exc) ==
    IF IsInstance(exc, "Exception")
    THEN [raised |-> NoExc, ret |-> None,
          shown  |-> <<StError("API call failed: " \o exc.msg)>>]
    ELSE IF IsInstance(exc, "Timeout")
    THEN [raised |-> NoExc, ret |-> None,
          shown  |-> <<StError("Request timed out. The document may be too complex.")>>]
    ELSE [raised |-> exc, ret |-> None, shown |-> <<>>]

\* The except clauses, tried in order.
text_handlers(exc) ==
    IF IsInstance(exc, "Timeout")
    THEN [raised |-> NoExc, ret |-> None,
          shown  |-> <<StError("Request timed out. The document may be too complex.")>>]
    ELSE IF IsInstance(exc, "Exception")
    THEN [raised |-> NoExc, ret |-> None,
          shown  |-> <<StError("API call failed: " \o exc.msg)>>]
    ELSE [raised |-> exc, ret |-> None, shown |-> <<>>]

\* Mutant: a request that fails is sent once more.
classify_text_retry(title, text, outcome) ==
    LET request == Request([title |-> title, text |-> text])
        sent    == requests_post(request, outcome)
        body    == IF sent.raised = NoExc
                   THEN text_on_response(sent.response)
                   ELSE [raised |-> sent.raised, ret |-> None, shown |-> <<>>]
        handled == text_handlers(body.raised)
    IN  IF body.raised = NoExc
        THEN [ret |-> body.ret, shown |-> body.shown, wire |-> <<request>>, raised |-> NoExc]
        ELSE [ret |-> handled.ret, shown |-> body.shown \o handled.shown,
              wire |-> <<request, request>>, raised |-> handled.raised]

classify_text(title, text, outcome) ==
    LET request == Request([title |-> title, text |-> text])
        sent    == requests_post(request, outcome)
        body    == IF sent.raised = NoExc
                   THEN text_on_response(sent.response)
                   ELSE [raised |-> sent.raised, ret |-> None, shown |-> <<>>]
        handled == text_handlers(body.raised)
    IN  IF body.raised = NoExc
        THEN [ret |-> body.ret, shown |-> body.shown, wire |-> <<request>>, raised |-> NoExc]
        ELSE [ret |-> handled.ret, shown |-> body.shown \o handled.shown,
              wire |-> <<request>>, raised |-> handled.raised]

(***************************************************************************)
(* classify_pdf.  read_ok tells whether pdf_file.read() succeeds; a read   *)
(* that raises (a closed file) consumes nothing.  The call also yields the *)
(* file object as it leaves it (file) and what read() returned (reads).    *)
(***************************************************************************)
\* Mutant: the read position is not reset after the read.
pdf_read_and_encode_no_seek(pdf_file, read_ok) ==
    IF ~read_ok
    THEN [raised |-> Exc("ValueError", "I/O operation on closed file."),
          pdf_base64 |-> "", file |-> pdf_file, reads |-> <<>>]
    ELSE LET r == file_read(pdf_file)
         IN  [raised     |-> NoExc,
              pdf_base64 |-> decode_utf8(b64encode(r.data)),
              file       |-> r.file,
              reads      |-> <<r.data>>]

\* pdf_file.read(), base64.b64encode(...).decode('utf-8'), pdf_file.seek(0)
pdf_read_and_encode(pdf_file, read_ok) ==
    IF ~read_ok
    THEN [raised |-> Exc("ValueError", "I/O operation on closed file."),
          pdf_base64 |-> "", file |-> pdf_file, reads |-> <<>>]
    ELSE LET r == file_read(pdf_file)
         IN  [raised     |-> NoExc,
              pdf_base64 |-> decode_utf8(b64encode(r.data)),
              file       |-> file_seek(r.file, 0),
              reads      |-> <<r.data>>]

\* Mutant: accepts every status below 400 (response.ok) where the code accepts 200 only.
pdf_on_response_ok(response) ==
    IF response.status_code < 400
    THEN LET j == json_loads(response.text)
         IN  [raised |-> j.raised, ret |-> j.value, shown |-> <<>>]
    ELSE [raised |-> NoExc, ret |-> None,
          shown  |-> <<StError("API Error: " \o ToString(response.status_code)),
                       StError(response.text)>>]

\* The `if response.status_code == 200: ... else: ...` of the try body.
pdf_on_response(response) ==
    IF response.status_code = 200
    THEN LET j == json_loads(response.text)
         IN  [raised |-> j.raised, ret |-> j.value, shown |-> <<>>]
    ELSE [raised |-> NoExc, ret |-> None,
          shown  |-> <<StError("API Error: " \o ToString(response.status_code)),
                       StError(response.text)>>]

\* Mutant: the last clause catches requests' exceptions only, not every Exception.
pdf_handlers_requests_only(exc) ==
    IF IsInstance(exc, "Timeout")
    THEN [raised |-> NoExc, ret |-> None,
          shown  |-> <<StError("Request timed out. The PDF may be too large or complex.")>>]
    ELSE IF IsInstance(exc, "RequestException")
    THEN [raised |-> NoExc, ret |-> None,
          shown  |-> <<StError("PDF processing failed: " \o exc.msg)>>]
    ELSE [raised |-> exc, ret |-> None, shown |-> <<>>]

\* The except clauses, tried in order.
pdf_handlers(exc) ==
    IF IsInstance(exc, "Timeout")
    THEN [raised |-> NoExc, ret |-> None,
          shown  |-> <<StError("Request timed out. The PDF may be too large or complex.")>>]
    ELSE IF IsInstance(exc, "Exception")
    THEN [raised |-> NoExc, ret |-> None,
          shown  |-> <<StError("PDF processing failed: " \o exc.msg)>>]
    ELSE [raised |-> exc, ret |-> None, shown |-> <<>>]

classify_pdf(title, pdf_file, read_ok, outcome) ==
    LET enc     == pdf_read_and_encode(pdf_file, read_ok)
        request == Request([title |-> title, pdf_base64 |-> enc.pdf_base64])
        sent    == requests_post(request, outcome)
        wire    == IF enc.raised = NoExc THEN <<request>> ELSE <<>>
        body    == IF enc.raised # NoExc
                   THEN [raised |-> enc.raised, ret |-> None, shown |-> <<>>]
                   ELSE IF sent.raised = NoExc
                   THEN pdf_on_response(sent.response)
                   ELSE [raised |-> sent.raised, ret |-> None, shown |-> <<>>]
        handled == pdf_handlers(body.raised)
    IN  IF body.raised = NoExc
        THEN [ret |-> body.ret, shown |-> body.shown, wire |-> wire, raised |-> NoExc,
              file |-> enc.file, reads |-> enc.reads]
        ELSE [ret |-> handled.ret, shown |-> body.shown \o handled.shown, wire |-> wire,
              raised |-> handled.raised, file |-> enc.file, reads |-> enc.reads]

(***************************************************************************)
(* render_result.  It yields the elements displayed (out) and the          *)
(* exception that ended it early (raised; NoExc when it ran to the end).   *)
(***************************************************************************)
\* str(n) of a number kept in thousandths: 870 is "0.87", 1000 is "1".
num_str(n) ==
    LET whole == n \div 1000
        frac  == n % 1000
        d1    == frac \div 100
        d2    == (frac \div 10) % 10
        d3    == frac % 10
    IN  IF frac = 0 THEN ToString(whole)
        ELSE ToString(whole) \o "." \o ToString(d1)
                 \o (IF d2 = 0 /\ d3 = 0 THEN "" ELSE ToString(d2))
                 \o (IF d3 = 0 THEN "" ELSE ToString(d3))

\* str(v), as an f-string interpolates it.
py_str(v) ==
    CASE v.t = "None" -> "None"
      [] v.t = "bool" -> IF v.b THEN "True" ELSE "False"
      [] v.t = "num"  -> num_str(v.n)
      [] v.t = "str"  -> v.s
      [] v.t = "list" -> IF v.items = <<>> THEN "[]" ELSE "[...]"
      [] OTHER        -> IF DOMAIN v.fields = {} THEN "{}" ELSE "{...}"

\* type(v).__name__
type_name(v) ==
    CASE v.t = "None" -> "NoneType"
      [] v.t = "bool" -> "bool"
      [] v.t = "num"  -> IF v.n % 1000 = 0 THEN "int" ELSE "float"
      [] v.t = "str"  -> "str"
      [] v.t = "list" -> "list"
      [] OTHER        -> "dict"

\* Mutant: the percentage is truncated (int(confidence * 100)), not rounded.
round_percent_truncate(n) == n \div 10

\* n thousandths as a whole percentage, rounded half to even as format() rounds.
round_percent(n) ==
    LET q == n \div 10
        r == n % 10
    IN  IF r < 5 THEN q
        ELSE IF r > 5 THEN q + 1
        ELSE IF q % 2 = 0 THEN q ELSE q + 1

\* f"{v:.0%}"
format_percent(v) ==
    CASE v.t = "num"  -> [raised |-> NoExc, s |-> ToString(round_percent(v.n)) \o "%"]
      [] v.t = "bool" -> [raised |-> NoExc, s |-> IF v.b THEN "100%" ELSE "0%"]
      [] v.t = "str"  -> [raised |-> Exc("ValueError",
                              "Unknown format code '%' for object of type 'str'"), s |-> ""]
      [] OTHER        -> [raised |-> Exc("TypeError",
                              "unsupported format string passed to " \o type_name(v)
                                  \o ".__format__"), s |-> ""]

\* The `if result.get("qualified"):` branch.
render_qualified(result) ==
    LET banner         == Element("success", "", "**M&A Transaction Detected**")
        confidence     == format_percent(Get(result, "confidence", PyNum(0)))
        theme          == Get(result, "theme", PyStr("N/A"))
        reasoning      == Get(result, "reasoning", None)
        stage          == Get(result, "stage", PyStr("unknown"))
        bedrock_called == Get(result, "bedrock_called", PyBool(FALSE))
    IN  IF confidence.raised # NoExc
        THEN [raised |-> confidence.raised, out |-> <<banner>>]
        ELSE [raised |-> NoExc,
              out |-> <<banner,
                        Element("metric", "Confidence", confidence.s),
                        Element("metric", "Transaction Type", py_str(theme))>>
                      \o (IF Truthy(reasoning)
                          THEN <<Element("info", "", "**Analysis**: " \o py_str(reasoning))>>
                          ELSE <<>>)
                      \o (IF Truthy(bedrock_called)
                          THEN <<Element("caption", "",
                                   "AWS Bedrock Claude used (Stage: " \o py_str(stage) \o ")")>>
                          ELSE <<Element("caption", "",
                                   "Pre-filter/Rule-based classification (Stage: "
                                       \o py_str(stage) \o ")")>>)]

\* Mutant: the filter caption is shown whenever filter is present, empty or not
\* (`if filter_name is not None:`).
render_rejected_filter_present(result) ==
    LET reason      == Get(result, "reason", PyStr("Does not meet M&A criteria"))
        filter_name == Get(result, "filter", None)
        stage       == Get(result, "stage", PyStr("unknown"))
    IN  [raised |-> NoExc,
         out |-> <<Element("warning", "", "**Not an M&A Transaction**"),
                   Element("info", "", "**Reason**: " \o py_str(reason))>>
                 \o (IF filter_name # None
                     THEN <<Element("caption", "", "Filtered by: " \o py_str(filter_name))>>
                     ELSE <<>>)
                 \o <<Element("caption", "", "Processing stage: " \o py_str(stage))>>]

\* The else branch.
render_rejected(result) ==
    LET reason      == Get(result, "reason", PyStr("Does not meet M&A criteria"))
        filter_name == Get(result, "filter", None)
        stage       == Get(result, "stage", PyStr("unknown"))
    IN  [raised |-> NoExc,
         out |-> <<Element("warning", "", "**Not an M&A Transaction**"),
                   Element("info", "", "**Reason**: " \o py_str(reason))>>
                 \o (IF Truthy(filter_name)
                     THEN <<Element("caption", "", "Filtered by: " \o py_str(filter_name))>>
                     ELSE <<>>)
                 \o <<Element("caption", "", "Processing stage: " \o py_str(stage))>>]

render_result(result) ==
    IF result.t # "dict"
    THEN [raised |-> Exc("AttributeError",
                         "'" \o type_name(result) \o "' object has no attribute 'get'"),
          out |-> <<>>]
    ELSE IF Truthy(Get(result, "qualified", None))
    THEN render_qualified(result)
    ELSE render_rejected(result)

(***************************************************************************)
(* The page.                                                               *)
(***************************************************************************)
\* SAMPLE_ANNOUNCEMENTS: the titles as written, each text by its opening words.
SAMPLE_ANNOUNCEMENTS ==
    << [title |-> "Vista Equity Partners to Acquire Finastra - $8.4 Billion LBO",
        text  |-> "Vista Equity Partners has entered into a definitive agreement to acquire Finastra, ..."],
       [title |-> "Microsoft Reports Strong Q4 Earnings - $65B Revenue (Should Reject)",
        text  |-> "Microsoft Corporation today announced financial results for the fourth quarter ended ..."],
       [title |-> "REA Group Issues $500M Senior Notes - Refinancing (Should Reject)",
        text  |-> "REA Group Limited announced today the successful pricing of A$500 million ..."],
       [title |-> "Apollo Leads $1.2B Buyout of Global Healthcare IT Provider",
        text  |-> "Apollo Global Management, Inc. announced today that funds managed by its affiliates ..."],
       [title |-> "Blackstone Acquires Industrial Portfolio - Real Estate (Should Reject)",
        text  |-> "Blackstone Real Estate Income Trust, Inc. (BREIT) today announced the acquisition ..."],
       [title |-> "Brookfield Infrastructure Closes $850M Acquisition of Data Center Assets",
        text  |-> "Brookfield Infrastructure Partners L.P. announced today the completion of its acquisition ..."] >>

\* What the user may type into the text widgets ("" is a widget left empty).
TitleInputs == {"", "ABC Corp - Proposed Acquisition of XYZ Ltd"}

TextInputs == {"", "ABC Corp has agreed to acquire XYZ Ltd."}

\* What the environment did to one classify call: whether the file could be read
\* and what the network did with the request.  NoEnv: no call was made.
Env(read_ok, outcome) == [read_ok |-> read_ok, outcome |-> outcome]

NoEnv == Env(TRUE, Outcome("none", 0, NoResponse))

\* The runs of classify_pdf: the read fails (no request follows), or it succeeds
\* and the network gives one of its outcomes.
PdfRuns ==
    {Env(FALSE, Outcome("none", 0, NoResponse))} \cup {Env(TRUE, o) : o \in Outcomes}

\* Mutant: only the title is checked.
text_input_missing_title_only(title, text) == title = ""

\* `if not title_text or not text_input:`
text_input_missing(title, text) == title = "" \/ text = ""

\* `if not title_pdf:`
pdf_title_missing(title) == title = ""

\* `elif not uploaded_file:`
pdf_file_missing(file) == file = None

VARIABLES
    sample,         \* st.selectbox: index of the chosen sample (1-based here)
    title_text,     \* st.text_input "Announcement Title" of the Text Input tab
    text_input,     \* st.text_area "Announcement Text"
    title_pdf,      \* st.text_input "Announcement Title" of the PDF Upload tab
    uploaded_file,  \* st.file_uploader: None, or the file object
    clicked,        \* the button whose handler ran in the last rerun ("none" if none)
    result,         \* what the classify call of the last rerun returned (NoCall if none)
    page,           \* the elements the button handler of the last rerun displayed
    wire,           \* the requests the last rerun sent
    render_calls,   \* how often the last rerun called render_result
    uncaught,       \* the exception that ended the last rerun (NoExc if none)
    pdf_reads,      \* what each read() of the uploaded file returned in the last rerun
    env,            \* what the file and the network did to the classify call of the last rerun
    pdf_payloads    \* pdf_base64 of the last two requests made from the current file object

widgets == <<sample, title_text, text_input, title_pdf, uploaded_file>>

outputs == <<clicked, result, page, wire, render_calls, uncaught, pdf_reads, env>>

vars == <<sample, title_text, text_input, title_pdf, uploaded_file, clicked, result, page,
          wire, render_calls, uncaught, pdf_reads, env, pdf_payloads>>

\* A rerun in which no button is pressed displays no result and sends nothing.
NoButton ==
    /\ clicked' = "none"
    /\ result' = NoCall
    /\ page' = <<>>
    /\ wire' = <<>>
    /\ render_calls' = 0
    /\ uncaught' = NoExc
    /\ pdf_reads' = <<>>
    /\ env' = NoEnv

Init ==
    /\ sample = 1
    /\ title_text = ""
    /\ text_input = ""
    /\ title_pdf = ""
    /\ uploaded_file = None
    /\ clicked = "none"
    /\ result = NoCall
    /\ page = <<>>
    /\ wire = <<>>
    /\ render_calls = 0
    /\ uncaught = NoExc
    /\ pdf_reads = <<>>
    /\ env = NoEnv
    /\ pdf_payloads = <<>>

SelectSample(i) ==
    /\ i # sample
    /\ sample' = i
    /\ NoButton
    /\ UNCHANGED <<title_text, text_input, title_pdf, uploaded_file, pdf_payloads>>

EditTitleText(v) ==
    /\ v # title_text
    /\ title_text' = v
    /\ NoButton
    /\ UNCHANGED <<sample, text_input, title_pdf, uploaded_file, pdf_payloads>>

EditTextInput(v) ==
    /\ v # text_input
    /\ text_input' = v
    /\ NoButton
    /\ UNCHANGED <<sample, title_text, title_pdf, uploaded_file, pdf_payloads>>

EditTitlePdf(v) ==
    /\ v # title_pdf
    /\ title_pdf' = v
    /\ NoButton
    /\ UNCHANGED <<sample, title_text, text_input, uploaded_file, pdf_payloads>>

\* The user selects a file: a fresh file object, positioned at its start.
UploadFile(content) ==
    /\ uploaded_file' = UploadedFile(content)
    /\ pdf_payloads' = <<>>
    /\ NoButton
    /\ UNCHANGED <<sample, title_text, text_input, title_pdf>>

RemoveFile ==
    /\ uploaded_file # None
    /\ uploaded_file' = None
    /\ pdf_payloads' = <<>>
    /\ NoButton
    /\ UNCHANGED <<sample, title_text, text_input, title_pdf>>

\* `if result: st.markdown("---"); render_result(result)` after a classify call.
ShowResult(call) ==
    LET r == render_result(call.ret)
    IN  /\ result' = call.ret
        /\ wire' = call.wire
        /\ IF call.raised # NoExc
           THEN /\ page' = call.shown
                /\ render_calls' = 0
                /\ uncaught' = call.raised
           ELSE IF Truthy(call.ret)
           THEN /\ page' = call.shown \o <<Element("markdown", "", "---")>> \o r.out
                /\ render_calls' = 1
                /\ uncaught' = r.raised
           ELSE /\ page' = call.shown
                /\ render_calls' = 0
                /\ uncaught' = NoExc

\* A validation error: the handler displays it and calls nothing.
Invalid(msg) ==
    /\ result' = NoCall
    /\ page' = <<StError(msg)>>
    /\ wire' = <<>>
    /\ render_calls' = 0
    /\ uncaught' = NoExc
    /\ env' = NoEnv

\* The last two payloads sent from the current file object.
Remember(payloads, sent) ==
    IF sent = <<>> THEN payloads
    ELSE IF Len(payloads) < 2 THEN Append(payloads, sent[1].json.pdf_base64)
    ELSE <<payloads[2], sent[1].json.pdf_base64>>

ClickClassifySample(outcome) ==
    /\ clicked' = "classify_sample"
    /\ ShowResult(classify_text(SAMPLE_ANNOUNCEMENTS[sample].title,
                                SAMPLE_ANNOUNCEMENTS[sample].text, outcome))
    /\ env' = Env(TRUE, outcome)
    /\ pdf_reads' = <<>>
    /\ UNCHANGED <<widgets, pdf_payloads>>

ClickClassifyText(outcome) ==
    /\ clicked' = "classify_text"
    /\ IF text_input_missing(title_text, text_input)
       THEN Invalid("Please provide both title and text")
       ELSE /\ ShowResult(classify_text(title_text, text_input, outcome))
            /\ env' = Env(TRUE, outcome)
    /\ pdf_reads' = <<>>
    /\ UNCHANGED <<widgets, pdf_payloads>>

ClickClassifyPdf(run) ==
    /\ clicked' = "classify_pdf"
    /\ IF pdf_title_missing(title_pdf)
       THEN /\ Invalid("Please provide an announcement title")
            /\ pdf_reads' = <<>>
            /\ UNCHANGED <<uploaded_file, pdf_payloads>>
       ELSE IF pdf_file_missing(uploaded_file)
       THEN /\ Invalid("Please upload a PDF file")
            /\ pdf_reads' = <<>>
            /\ UNCHANGED <<uploaded_file, pdf_payloads>>
       ELSE LET call == classify_pdf(title_pdf, uploaded_file, run.read_ok, run.outcome)
            IN  /\ ShowResult(call)
                /\ env' = run
                /\ pdf_reads' = call.reads
                /\ uploaded_file' = call.file
                /\ pdf_payloads' = Remember(pdf_payloads, call.wire)
    /\ UNCHANGED <<sample, title_text, text_input, title_pdf>>

Next ==
    \/ \E i \in 1..Len(SAMPLE_ANNOUNCEMENTS) : SelectSample(i)
    \/ \E v \in TitleInputs : EditTitleText(v)
    \/ \E v \in TextInputs : EditTextInput(v)
    \/ \E v \in TitleInputs : EditTitlePdf(v)
    \/ \E content \in PdfContents : UploadFile(content)
    \/ RemoveFile
    \/ \E outcome \in Outcomes : ClickClassifySample(outcome)
    \/ \E outcome \in Outcomes : ClickClassifyText(outcome)
    \/ \E run \in PdfRuns : ClickClassifyPdf(run)

Spec == Init /\ [][Next]_vars

(***************************************************************************)
(* render_result on its own: each step hands it one value of RenderInputs. *)
(***************************************************************************)
\* The ways of an optional field: absent, or present with one of the values.
Opt(key, values) == {{}} \cup {{<<key, v>>} : v \in values}

\* Results with qualified = true: every optional field absent or present, the
\* fields of the other branch (reason, filter) included.
QualifiedResults ==
    {Obj({<<"qualified", PyBool(TRUE)>>} \cup c \cup t \cup r \cup s \cup b \cup n \cup f) :
        c \in Opt("confidence", {PyNum(0), PyNum(125), PyNum(870), PyNum(875), PyNum(1000)}),
        t \in Opt("theme", {PyStr("LBO")}),
        r \in Opt("reasoning", {PyStr(""), PyStr("Change of control")}),
        s \in Opt("stage", {PyStr("rule")}),
        b \in Opt("bedrock_called", {PyBool(FALSE), PyBool(TRUE)}),
        n \in Opt("reason", {PyStr("Deal size below threshold")}),
        f \in Opt("filter", {PyStr("min_deal_size")})}

\* Results with qualified = false.
RejectedResults ==
    {Obj({<<"qualified", PyBool(FALSE)>>} \cup n \cup f \cup s \cup c \cup r \cup b) :
        n \in Opt("reason", {PyStr("Deal size below threshold")}),
        f \in Opt("filter", {PyStr(""), PyStr("min_deal_size")}),
        s \in Opt("stage", {PyStr("prefilter")}),
        c \in Opt("confidence", {PyNum(870)}),
        r \in Opt("reasoning", {PyStr("Change of control")}),
        b \in Opt("bedrock_called", {PyBool(TRUE)})}

RenderInputs == QualifiedResults \cup RejectedResults

RenderStep(r) ==
    LET rendered == render_result(r)
    IN  /\ result' = r
        /\ page' = rendered.out
        /\ uncaught' = rendered.raised
        /\ render_calls' = 1
        /\ clicked' = "none"
        /\ wire' = <<>>
        /\ pdf_reads' = <<>>
        /\ env' = NoEnv
        /\ UNCHANGED <<widgets, pdf_payloads>>

RenderNext == \E r \in RenderInputs : RenderStep(r)

RenderSpec == Init /\ [][RenderNext]_vars

(***************************************************************************)
(* Properties.  They are stated over what the last rerun left behind,      *)
(* in terms of what the environment did (env), not of the operators above. *)
(***************************************************************************)
\* A classify function was called by the last rerun (validation passed).
Called == clicked # "none" /\ result # NoCall

\* The request was sent and the service's reply arrived within the timeout.
Replied == Called /\ env.read_ok /\ env.outcome.k = "reply" /\ env.outcome.secs <= 35

\* The request was sent and no reply arrived within the timeout.
TimedOut ==
    /\ Called
    /\ env.read_ok
    /\ \/ env.outcome.k = "no_connect"
       \/ env.outcome.k = "reply" /\ env.outcome.secs > 35

ErrorsShown == {page[i].body : i \in {j \in DOMAIN page : page[j].w = "error"}}

\* The text or PDF flavour of a message, by the function the pressed button calls.
ByButton(text_msg, pdf_msg) == IF clicked = "classify_pdf" THEN pdf_msg ELSE text_msg

TimeoutMessage ==
    ByButton("Request timed out. The document may be too complex.",
             "Request timed out. The PDF may be too large or complex.")

GenericPrefix == ByButton("API call failed: ", "PDF processing failed: ")

Causes == {"Connection refused", "Connection timed out", "Read timed out",
           "Expecting value: line 1 column 1 (char 0)", "I/O operation on closed file."}

GenericMessages == {prefix \o cause : prefix \in {"API call failed: ", "PDF processing failed: "},
                                      cause \in Causes}

\* C1 as stated: whenever the POST completes with status 200, the call returns the
\* JSON-parsed body and shows no error.
C1_Original ==
    (Replied /\ env.outcome.response.status_code = 200)
        => /\ \E d \in JsonDocuments : d[1] = env.outcome.response.text /\ result = d[2]
           /\ ErrorsShown = {}

\* C1 (amended): whenever the POST completes with status 200 and a body that is
\* valid JSON, classify_text and classify_pdf return exactly the value the body
\* parses to, send exactly that one request, and show no error.
C1_Returns200Body ==
    (Replied /\ env.outcome.response.status_code = 200
             /\ env.outcome.response.text \in JsonTexts)
        => /\ \E d \in JsonDocuments : d[1] = env.outcome.response.text /\ result = d[2]
           /\ ErrorsShown = {}
           /\ Len(wire) = 1

C1_Witness ==
    /\ Replied
    /\ clicked = "classify_pdf"
    /\ env.outcome.response = Response(200, "{\"qualified\": true, \"confidence\": 0.87, \"theme\": \"LBO\"}")
    /\ result = ExampleQualified

\* C2: for every reply whose status is not 200, both classify functions show the
\* status code and the body text verbatim as errors, return None, and
\* render_result is not called.
C2_Non200IsError ==
    (Replied /\ env.outcome.response.status_code # 200)
        => /\ page = <<StError("API Error: " \o ToString(env.outcome.response.status_code)),
                       StError(env.outcome.response.text)>>
           /\ result = None
           /\ render_calls = 0

C2_Witness ==
    /\ Replied
    /\ env.outcome.response = Response(500, "internal error")
    /\ page = <<StError("API Error: 500"), StError("internal error")>>
    /\ result = None

\* C3: when no reply arrives within the 35-second timeout, both classify functions
\* return None and show the timeout message of that function and nothing else; that
\* message is not a generic failure message.
C3_TimeoutMessage ==
    TimedOut
        => /\ result = None
           /\ page = <<StError(TimeoutMessage)>>
           /\ ErrorsShown \cap GenericMessages = {}
           /\ render_calls = 0

C3_Witness ==
    /\ TimedOut
    /\ env.outcome.k = "reply"
    /\ env.outcome.secs = 36
    /\ clicked = "classify_text"
    /\ page = <<StError("Request timed out. The document may be too complex.")>>

\* The cause of a failure that is neither a timeout nor a non-200 status.
OtherFailure ==
    /\ Called
    /\ \/ ~env.read_ok
       \/ env.outcome.k = "refused"
       \/ Replied /\ env.outcome.response.status_code = 200
                  /\ env.outcome.response.text \notin JsonTexts

Cause ==
    IF ~env.read_ok THEN "I/O operation on closed file."
    ELSE IF env.outcome.k = "refused" THEN "Connection refused"
    ELSE "Expecting value: line 1 column 1 (char 0)"

\* C4: for a connection error, a 200 reply whose body is not JSON, or a failing
\* read of the uploaded file, both classify functions show the generic failure
\* message with the cause and return None; and whenever a classify function was
\* called and render_result was not, no exception left the rerun.
C4_GenericFailure ==
    /\ OtherFailure
        => /\ result = None
           /\ page = <<StError(GenericPrefix \o Cause)>>
           /\ render_calls = 0
    /\ (Called /\ render_calls = 0) => uncaught = NoExc

C4_Witness ==
    /\ OtherFailure
    /\ ~env.read_ok
    /\ clicked = "classify_pdf"
    /\ page = <<StError("PDF processing failed: I/O operation on closed file.")>>
    /\ result = None

\* base64 of the test contents, as Python's base64.b64encode gives them.
KnownBase64 ==
    { <<<<>>, "">>, <<<<37>>, "JQ==">>, <<<<255>>, "/w==">>,
      <<<<37, 37>>, "JSU=">>, <<<<255, 255>>, "//8=">>, <<<<37, 255>>, "Jf8=">>,
      <<<<37, 37, 37>>, "JSUl">>, <<<<255, 255, 255>>, "////">>, <<<<37, 255, 37>>, "Jf8l">>,
      <<<<37, 37, 37, 37>>, "JSUlJQ==">>, <<<<255, 255, 255, 255>>, "/////w==">>,
      <<<<37, 255, 37, 255>>, "Jf8l/w==">> }

\* C5: two classify_pdf requests in a row from the same file object carry the same
\* pdf_base64, which is the base64 text of the file's full content, whatever the
\* outcome of the first request.
C5_SamePayloadTwice ==
    Len(pdf_payloads) = 2
        => /\ pdf_payloads[1] = pdf_payloads[2]
           /\ pdf_payloads[2] = decode_utf8(b64encode(uploaded_file.content))
           /\ \A k \in KnownBase64 : uploaded_file.content = k[1] => pdf_payloads[2] = k[2]

C5_Witness ==
    /\ Len(pdf_payloads) = 2
    /\ uploaded_file.content = <<37, 255>>
    /\ pdf_payloads = <<"Jf8=", "Jf8=">>
    /\ env.outcome.k = "refused"

\* C6 as stated: after every classify_pdf call, on each exit path including a
\* failing read, the file has been fully read and its position is at the start.
C6_Original ==
    (Called /\ clicked = "classify_pdf")
        => /\ pdf_reads = <<uploaded_file.content>>
           /\ uploaded_file.pos = 0

\* C6 (amended): after every classify_pdf call whose read of the file succeeds,
\* on each exit path (reply 200, other status, timeout, transport error), the
\* file has been read once and fully and its position is back at the start; when
\* the read fails nothing has been read and the position is unchanged.
C6_ReadFullyAndRewound ==
    (Called /\ clicked = "classify_pdf")
        => /\ uploaded_file.pos = 0
           /\ env.read_ok => pdf_reads = <<uploaded_file.content>>
           /\ ~env.read_ok => pdf_reads = <<>>

C6_Witness ==
    /\ Called
    /\ clicked = "classify_pdf"
    /\ TimedOut
    /\ uploaded_file.content = <<37, 255, 37>>
    /\ pdf_reads = <<uploaded_file.content>>
    /\ uploaded_file.pos = 0

\* The JSON body the pressed button is to send, from the widgets as they are.
ExpectedJson ==
    CASE clicked = "classify_sample" ->
            [title |-> SAMPLE_ANNOUNCEMENTS[sample].title, text |-> SAMPLE_ANNOUNCEMENTS[sample].text]
      [] clicked = "classify_text" -> [title |-> title_text, text |-> text_input]
      [] OTHER -> [title |-> title_pdf,
                   pdf_base64 |-> decode_utf8(b64encode(uploaded_file.content))]

\* C7 as stated: each classify action that passes validation sends exactly one POST.
C7_Original == Called => Len(wire) = 1

\* C7 (amended): each classify action that passes validation sends exactly one
\* POST to the configured endpoint, built from the inputs of this action alone,
\* whatever the outcome (no retry); except that a Classify PDF action whose read
\* of the file fails sends none.
C7_OneRequestPerAction ==
    /\ (Called /\ env.read_ok)
        => /\ Len(wire) = 1
           /\ wire[1].url = API_ENDPOINT
           /\ wire[1].json = ExpectedJson
    /\ (Called /\ ~env.read_ok) => wire = <<>>
    /\ ~Called => wire = <<>>

C7_Witness ==
    /\ Called
    /\ clicked = "classify_sample"
    /\ sample = 4
    /\ env.outcome.k = "refused"
    /\ Len(wire) = 1
    /\ wire[1].json.title = "Apollo Leads $1.2B Buyout of Global Healthcare IT Provider"

\* The inputs of the pressed button do not pass its validation.
InvalidInputs ==
    \/ clicked = "classify_text" /\ (title_text = "" \/ text_input = "")
    \/ clicked = "classify_pdf" /\ (title_pdf = "" \/ uploaded_file = None)

ValidationMessage ==
    IF clicked = "classify_text" THEN "Please provide both title and text"
    ELSE IF title_pdf = "" THEN "Please provide an announcement title"
    ELSE "Please upload a PDF file"

\* C8: Classify Text with a missing title or text, or Classify PDF with a missing
\* title or file, shows the validation error and nothing else, sends no request,
\* does not read the uploaded file and renders no result.
C8_ValidationBlocks ==
    InvalidInputs
        => /\ page = <<StError(ValidationMessage)>>
           /\ wire = <<>>
           /\ pdf_reads = <<>>
           /\ render_calls = 0
           /\ result = NoCall
           /\ uploaded_file # None => uploaded_file.pos = 0

C8_Witness ==
    /\ clicked = "classify_pdf"
    /\ title_pdf = ""
    /\ uploaded_file # None
    /\ page = <<StError("Please provide an announcement title")>>
    /\ wire = <<>>

\* The fields of a ClassificationResult and the type each has when present.
FieldType ==
    [k \in {"qualified", "confidence", "theme", "reasoning", "stage", "bedrock_called",
            "reason", "filter"} |->
        CASE k \in {"qualified", "bedrock_called"} -> "bool"
          [] k = "confidence" -> "num"
          [] OTHER -> "str"]

HasResultShape(v) ==
    /\ v.t = "dict"
    /\ "qualified" \in DOMAIN v.fields
    /\ DOMAIN v.fields \subseteq DOMAIN FieldType
    /\ \A k \in DOMAIN v.fields : v.fields[k].t = FieldType[k]

\* C9 as stated: render_result is reached only by a 200 reply whose body has the
\* ClassificationResult shape; a reply with any other JSON body, or with a
\* non-2xx status, shows an error and renders nothing.
C9_OnlyResultsRendered ==
    /\ render_calls > 0
        => /\ Replied
           /\ env.outcome.response.status_code = 200
           /\ \E d \in JsonDocuments : d[1] = env.outcome.response.text /\ HasResultShape(d[2])
    /\ (Replied /\ \/ env.outcome.response.status_code \notin 200..299
                   \/ \E d \in JsonDocuments :
                          d[1] = env.outcome.response.text /\ ~HasResultShape(d[2]))
        => (ErrorsShown # {} /\ render_calls = 0 /\ uncaught = NoExc)

\* How many elements of a kind the page shows.
Count(w) == Cardinality({i \in DOMAIN page : page[i].w = w})

\* f"{c:.0%}" of the confidences used, as Python prints them.
KnownPercent ==
    {<<0, "0%">>, <<125, "12%">>, <<870, "87%">>, <<875, "88%">>, <<1000, "100%">>}

\* C10: for every result with qualified = true, render_result shows the positive
\* banner, the confidence as a percentage (0% when absent), the theme ("N/A" when
\* absent), an analysis block exactly when reasoning is present and non-empty, and
\* one caption naming the stage ("unknown" when absent): the Bedrock caption when
\* bedrock_called is true, the pre-filter/rule-based one when it is false or
\* absent; it shows no warning, reason or filter.
C10_QualifiedRendering ==
    (render_calls = 1 /\ result \in QualifiedResults)
        => LET f        == result.fields
               has(k)   == k \in DOMAIN f
               percent  == IF has("confidence")
                           THEN (CHOOSE k \in KnownPercent : k[1] = f["confidence"].n)[2]
                           ELSE "0%"
               theme    == IF has("theme") THEN f["theme"].s ELSE "N/A"
               analysis == has("reasoning") /\ f["reasoning"].s # ""
               stage    == IF has("stage") THEN f["stage"].s ELSE "unknown"
               caption  == IF has("bedrock_called") /\ f["bedrock_called"].b
                           THEN "AWS Bedrock Claude used (Stage: " \o stage \o ")"
                           ELSE "Pre-filter/Rule-based classification (Stage: " \o stage \o ")"
           IN  /\ uncaught = NoExc
               /\ Len(page) = IF analysis THEN 5 ELSE 4
               /\ page[1] = Element("success", "", "**M&A Transaction Detected**")
               /\ page[2] = Element("metric", "Confidence", percent)
               /\ page[3] = Element("metric", "Transaction Type", theme)
               /\ analysis => page[4] = Element("info", "", "**Analysis**: " \o f["reasoning"].s)
               /\ Count("info") = IF analysis THEN 1 ELSE 0
               /\ page[Len(page)] = Element("caption", "", caption)
               /\ Count("caption") = 1
               /\ Count("warning") = 0

C10_Witness ==
    /\ render_calls = 1
    /\ result = ExampleQualified
    /\ page = <<Element("success", "", "**M&A Transaction Detected**"),
                Element("metric", "Confidence", "87%"),
                Element("metric", "Transaction Type", "LBO"),
                Element("caption", "", "Pre-filter/Rule-based classification (Stage: unknown)")>>

\* C11: for every result with qualified = false, render_result shows the negative
\* banner, the reason text verbatim ("Does not meet M&A criteria" when absent), a
\* filter caption exactly when filter is present and non-empty, and the stage
\* ("unknown" when absent); it shows no confidence, theme, reasoning or Bedrock
\* caption.
C11_RejectedRendering ==
    (render_calls = 1 /\ result \in RejectedResults)
        => LET f         == result.fields
               has(k)    == k \in DOMAIN f
               reason    == IF has("reason") THEN f["reason"].s ELSE "Does not meet M&A criteria"
               filtered  == has("filter") /\ f["filter"].s # ""
               stage     == IF has("stage") THEN f["stage"].s ELSE "unknown"
           IN  /\ uncaught = NoExc
               /\ Len(page) = IF filtered THEN 4 ELSE 3
               /\ page[1] = Element("warning", "", "**Not an M&A Transaction**")
               /\ page[2] = Element("info", "", "**Reason**: " \o reason)
               /\ filtered => page[3] = Element("caption", "", "Filtered by: " \o f["filter"].s)
               /\ page[Len(page)] = Element("caption", "", "Processing stage: " \o stage)
               /\ Count("caption") = IF filtered THEN 2 ELSE 1
               /\ Count("info") = 1
               /\ Count("metric") = 0
               /\ Count("success") = 0

C11_Witness ==
    /\ render_calls = 1
    /\ result = ExampleRejected
    /\ page = <<Element("warning", "", "**Not an M&A Transaction**"),
                Element("info", "", "**Reason**: Deal size below threshold"),
                Element("caption", "", "Filtered by: min_deal_size"),
                Element("caption", "", "Processing stage: unknown")>>

\* C12 as stated: render_result is total: for every value a classify call hands
\* to it (every truthy JSON body of a 200 reply, whatever its shape), it runs to
\* its end without raising.  (That the same input gives the same output holds of
\* render_result by its being an operator of its argument alone.)
C12_RenderNeverRaises == render_calls = 1 => uncaught = NoExc

\* C13 as stated: every classify action that passes validation ends with exactly
\* one visible outcome: the result is rendered, or an error message is shown;
\* never neither, whatever the status code and the body of a 200 reply.
C13_OneVisibleOutcome ==
    Called
        => \/ render_calls = 1 /\ ErrorsShown = {}
           \/ render_calls = 0 /\ ErrorsShown # {}

====
